---------------------------- MODULE Spec2Model ----------------------------
(***************************************************************************)
(* A model of botocore's RequestSigner (src/botocore/signers.py): the      *)
(* signer cache of get_auth, in-place signing (sign) and the two presign   *)
(* flows (generate_url, build_post_form_args).                             *)
(*                                                                         *)
(* Python strings are sequences of one-character strings, so that the      *)
(* cache key built by '{0}.{1}.{2}'.format(...), str.endswith and          *)
(* str.split are computed character by character, as Python computes them. *)
(***************************************************************************)
EXTENDS Naturals, Sequences, FiniteSets, TLC

VARIABLES
    ctor,       \* signer id -> the arguments its constructor was given
    cfg,        \* signer id -> self._service_name, _region_name, ... (the fields)
    cache,      \* signer id -> self._cache: key string -> strategy instance id
    heap,       \* strategy instances ever constructed, in order; id = index
    objs,       \* the 'fields' mapping objects ever created, in order; id = index
    credUses,   \* number of times a strategy has used the credentials
    returned,   \* every successful get_auth call so far: arguments and result
    overrides,  \* signer id -> the non-None choose-signer responses so far
    ncalls,     \* number of public calls made so far
    last,       \* the journal of the latest public call
    thr         \* thread id -> the get_auth call the thread is running

vars == <<ctor, cfg, cache, heap, objs, credUses, returned, overrides, ncalls,
          last, thr>>

(***************************************************************************)
(* Bounds.                                                                 *)
(***************************************************************************)
MaxCalls == 2
MaxVariantCalls == 3
NumThreads == 2

(***************************************************************************)
(* Python values.                                                          *)
(***************************************************************************)
\* Python's None. No Python string equals it: every element of a string is
\* one character.
None == <<"<None>">>

\* botocore.UNSIGNED, the "do not sign" sentinel; it equals no version string.
UNSIGNED == <<"<botocore.UNSIGNED>">>

\* str(x) as str.format renders it: None is rendered as the text 'None'.
Fmt(x) == IF x = None THEN <<"N", "o", "n", "e">> ELSE x

\* s.endswith(suffix)
EndsWith(s, suffix) ==
    /\ Len(s) >= Len(suffix)
    /\ SubSeq(s, Len(s) - Len(suffix) + 1, Len(s)) = suffix

\* s.split('-', 1)[0]: the text before the first '-', or all of s.
SplitFirstDash(s) ==
    LET dashes == {k \in 1..Len(s) : s[k] = "-"}
    IN  IF dashes = {} THEN s
        ELSE SubSeq(s, 1, (CHOOSE k \in dashes : \A j \in dashes : k <= j) - 1)

(***************************************************************************)
(* The strings the model draws its inputs from.                            *)
(***************************************************************************)
V4 == <<"v", "4">>
S3 == <<"s", "3">>
QuerySuffix == <<"-", "q", "u", "e", "r", "y">>
PostSuffix == <<"-", "p", "r", "e", "s", "i", "g", "n", "-", "p", "o", "s", "t">>
V4Query == V4 \o QuerySuffix
S3Query == S3 \o QuerySuffix
S3Post == S3 \o PostSuffix
\* a version that no strategy is registered for
V4DotA == <<"v", "4", ".", "a">>

RegionA == <<"a">>
RegionB == <<"b">>
RegionADotB == <<"a", ".", "b">>
RegionNoneText == <<"N", "o", "n", "e">>
NameS == <<"s">>
NameBDotS == <<"b", ".", "s">>

(***************************************************************************)
(* botocore.auth.AUTH_TYPE_MAPS and the classes' REQUIRES_REGION.          *)
(***************************************************************************)
AUTH_TYPE_MAPS == {V4, V4Query, S3, S3Query, S3Post}

REQUIRES_REGION(cls) == cls \in {V4, V4Query}

(***************************************************************************)
(* get_auth.                                                               *)
(***************************************************************************)
\* key = '{0}.{1}.{2}'.format(signature_version, region_name, signing_name)
CacheKey(signature_version, region_name, signing_name) ==
    Fmt(signature_version) \o <<".">> \o Fmt(region_name) \o <<".">>
        \o Fmt(signing_name)

\* auth = cls(**kwargs): the instance the constructor builds. An argument
\* that is not passed is the empty set, one that is passed is a singleton.
NewAuth(self, cls, region_name, signing_name, extra) ==
    [cls |-> cls,
     credentials |-> self.credentials,
     region_name |-> IF REQUIRES_REGION(cls) THEN {region_name} ELSE {},
     service_name |-> IF REQUIRES_REGION(cls) THEN {signing_name} ELSE {},
     expires |-> extra]

\* A variant of GetAuth that never consults the cache.
GetAuthNoLookup(self, c, h, signing_name, region_name, signature_version, extra) ==
    LET version == IF signature_version = None THEN self.signature_version
                   ELSE signature_version
        key == CacheKey(version, region_name, signing_name)
        base == [version |-> version, key |-> key, hit |-> FALSE, ret |-> 0,
                 outcome |-> "ok", cache |-> c, heap |-> h]
    IN  IF version \notin AUTH_TYPE_MAPS
        THEN [base EXCEPT !.outcome = "UnknownSignatureVersionError"]
        ELSE IF REQUIRES_REGION(version) /\ self.region_name = None
        THEN [base EXCEPT !.outcome = "NoRegionError"]
        ELSE [base EXCEPT !.ret = Len(h) + 1,
                 !.heap = Append(h, NewAuth(self, version, region_name,
                                            signing_name, extra)),
                 !.cache = (key :> (Len(h) + 1)) @@ c]

\* A variant of GetAuth that examines the region only after it has built and
\* stored the instance.
GetAuthLateRegionCheck(self, c, h, signing_name, region_name, signature_version, extra) ==
    LET version == IF signature_version = None THEN self.signature_version
                   ELSE signature_version
        key == CacheKey(version, region_name, signing_name)
        base == [version |-> version, key |-> key, hit |-> FALSE, ret |-> 0,
                 outcome |-> "ok", cache |-> c, heap |-> h]
        built == [base EXCEPT !.ret = Len(h) + 1,
                     !.heap = Append(h, NewAuth(self, version, region_name,
                                                signing_name, extra)),
                     !.cache = (key :> (Len(h) + 1)) @@ c]
    IN  IF key \in DOMAIN c
        THEN [base EXCEPT !.hit = TRUE, !.ret = c[key]]
        ELSE IF version \notin AUTH_TYPE_MAPS
        THEN [base EXCEPT !.outcome = "UnknownSignatureVersionError"]
        ELSE IF REQUIRES_REGION(version) /\ self.region_name = None
        THEN [built EXCEPT !.outcome = "NoRegionError", !.ret = 0]
        ELSE built

\* RequestSigner.get_auth(signing_name, region_name, signature_version,
\* **extra) on a signer with fields self, cache c and the instances h built
\* so far: the outcome, the instance returned, and the cache and instances
\* afterwards.
GetAuth(self, c, h, signing_name, region_name, signature_version, extra) ==
    LET version == IF signature_version = None THEN self.signature_version
                   ELSE signature_version
        key == CacheKey(version, region_name, signing_name)
        base == [version |-> version, key |-> key, hit |-> FALSE, ret |-> 0,
                 outcome |-> "ok", cache |-> c, heap |-> h]
    IN  IF key \in DOMAIN c
        THEN [base EXCEPT !.hit = TRUE, !.ret = c[key]]
        ELSE IF version \notin AUTH_TYPE_MAPS
        THEN [base EXCEPT !.outcome = "UnknownSignatureVersionError"]
        ELSE IF REQUIRES_REGION(version) /\ self.region_name = None
        THEN [base EXCEPT !.outcome = "NoRegionError"]
        ELSE [base EXCEPT !.ret = Len(h) + 1,
                 !.heap = Append(h, NewAuth(self, version, region_name,
                                            signing_name, extra)),
                 !.cache = (key :> (Len(h) + 1)) @@ c]


(***************************************************************************)
(* Requests, the event bus and the strategies.                             *)
(***************************************************************************)
\* The request a caller hands to sign, or create_request_object builds from
\* a request dict: nothing has touched it yet.  fields is the id of the
\* mapping stored under context['s3-presign-post-fields'] (0: none), policy
\* the value stored under context['s3-presign-post-policy'] (none: {}), log
\* the calls made on the request, in order.
NewRequest ==
    [hooked |-> FALSE, auth |-> <<>>, rewrites |-> <<>>, prepared |-> FALSE,
     fields |-> 0, policy |-> {}, log |-> <<>>]

\* What the before-sign listeners do to the request: they may mutate it.
BeforeSign(request, mutate) == [request EXCEPT !.hooked = @ \/ mutate]

\* auth.add_auth(request): the strategy instance id signs the request.
AddAuth(id, request) ==
    [request EXCEPT !.auth = Append(@, id), !.log = Append(@, "add_auth")]

\* The presign-post strategies add their entries to the mapping the request
\* carries in its side-table; n tells one call's entries from another's.
IsPostAuth(cls) == EndsWith(cls, PostSuffix)

StrategyFields(n) == {<<"policy", n>>, <<"signature", n>>}

AddAuthFields(o, h, id, request, n) ==
    IF IsPostAuth(h[id].cls) /\ request.fields # 0
    THEN [o EXCEPT ![request.fields] = @ \cup StrategyFields(n)]
    ELSE o

\* fix_s3_host(request, signature_type, region_name)
FixS3Host(request, signature_type, region_name) ==
    [request EXCEPT !.rewrites = Append(@, <<signature_type, region_name>>),
                    !.log = Append(@, "fix_s3_host")]

\* request.prepare()
Prepare(request) ==
    [request EXCEPT !.prepared = TRUE, !.log = Append(@, "prepare")]

(***************************************************************************)
(* The journal of a public call.                                           *)
(***************************************************************************)
EmptyCache == [k \in {} |-> 0]

NoGetAuth ==
    [called |-> FALSE, signing_name |-> None, region_name |-> None,
     signature_version |-> None, extra |-> {}, version |-> None,
     key |-> <<>>, hit |-> FALSE, ret |-> 0, outcome |-> "none"]

\* The journal entry of a get_auth call with result g.
GetAuthEntry(signing_name, region_name, signature_version, extra, g) ==
    [called |-> TRUE, signing_name |-> signing_name,
     region_name |-> region_name, signature_version |-> signature_version,
     extra |-> extra, version |-> g.version, key |-> g.key, hit |-> g.hit,
     ret |-> g.ret, outcome |-> g.outcome]

NoCall ==
    [op |-> "none", signer |-> 0, outcome |-> "none", response |-> None,
     version |-> None, ga |-> NoGetAuth, expires_in |-> {}, given |-> FALSE,
     applied |-> 0, reqHook |-> NewRequest, reqOut |-> NewRequest,
     trace |-> <<>>, cacheBefore |-> EmptyCache, heapBefore |-> 0,
     credBefore |-> 0, objsBefore |-> 0, url |-> NewRequest, fields |-> 0,
     hookVersion |-> None, mutate |-> FALSE, region_arg |-> None]

\* The journal of a call that starts now on signer i.
Begin(op, i) ==
    [NoCall EXCEPT !.op = op, !.signer = i, !.cacheBefore = cache[i],
                   !.heapBefore = Len(heap), !.credBefore = credUses,
                   !.objsBefore = Len(objs)]

\* The history of successful get_auth calls, extended by the entry e of a
\* call made by the public method op.
Returned(op, i, e) ==
    IF e.outcome = "ok"
    THEN returned \cup {[op |-> op, signer |-> i,
                         signature_version |-> e.version,
                         region_name |-> e.region_name,
                         signing_name |-> e.signing_name, hit |-> e.hit,
                         inst |-> e.ret]}
    ELSE returned

(***************************************************************************)
(* The steps of sign, generate_url and build_post_form_args.               *)
(***************************************************************************)
\* sign: signature_version = self._signature_version, replaced by the
\* choose-signer response when that is not None.
EffectiveVersion(configured, response) ==
    IF response # None THEN response ELSE configured

\* A variant of HookEvents in which the presign methods emit the events too.
HookEventsInPresign(op, signature_version) ==
    <<"choose-signer", "before-sign">>

\* A variant of HookEvents in which sign does not emit before-sign when the
\* request will not be signed.
HookEventsSkipUnsigned(op, signature_version) ==
    IF op # "sign" THEN <<>>
    ELSE IF signature_version = UNSIGNED THEN <<"choose-signer">>
    ELSE <<"choose-signer", "before-sign">>

\* The events a public method emits on the event bus before it looks up a
\* strategy: sign emits choose-signer (emit_until_response) and then
\* before-sign (emit); get_auth, generate_url and build_post_form_args emit
\* nothing.
HookEvents(op, signature_version) ==
    IF op = "sign" THEN <<"choose-signer", "before-sign">> ELSE <<>>

Emits(events, name) == \E k \in DOMAIN events : events[k] = name

\* A variant of BeforeSignVersion that hands the configured version to the
\* before-sign listeners.
BeforeSignVersionConfigured(configured, signature_version) == configured

\* sign: the signature_version the before-sign event carries: the local
\* variable, after the choose-signer response has replaced it.
BeforeSignVersion(configured, signature_version) == signature_version

\* A variant of PostSteps with the order of generate_url.
PostStepsLikeUrl(id, request, signature_type, region_name) ==
    Prepare(AddAuth(id, FixS3Host(request, signature_type, region_name)))

\* generate_url, on the request built from the request dict: fix_s3_host,
\* auth.add_auth, request.prepare(); the result carries request.url.
UrlSteps(id, request, signature_type, region_name) ==
    Prepare(AddAuth(id, FixS3Host(request, signature_type, region_name)))

\* build_post_form_args, on the request that carries fields and policy:
\* auth.add_auth, then fix_s3_host; the result carries request.url.
PostSteps(id, request, signature_type, region_name) ==
    FixS3Host(AddAuth(id, request), signature_type, region_name)

\* A variant of ShouldSign that skips signing only for None.
ShouldSignUnlessNone(signature_version) == signature_version # None

\* sign: if signature_version != botocore.UNSIGNED
ShouldSign(signature_version) == signature_version # UNSIGNED

\* A variant of DeriveVariant that appends no suffix.
DeriveVariantNoSuffix(signature_version, suffix) == signature_version

\* A variant of DeriveVariant that appends the suffix whatever the version
\* ends with.
DeriveVariantAlwaysAppend(signature_version, suffix) ==
    signature_version \o suffix

\* generate_url, build_post_form_args:
\* if not signature_version.endswith(suffix): signature_version += suffix
DeriveVariant(signature_version, suffix) ==
    IF EndsWith(signature_version, suffix) THEN signature_version
    ELSE signature_version \o suffix

\* generate_url, build_post_form_args:
\* if region_name is None: region_name = self._region_name
ResolveRegion(self, region_name) ==
    IF region_name = None THEN self.region_name ELSE region_name

\* The entries of a mapping a caller supplies as fields.
CallerFields == {<<"acl", 0>>}

\* A variant of FieldsObject with one default mapping shared by all calls
\* that supply none.
FieldsObjectSharedDefault(o, given) ==
    IF given THEN [id |-> Len(o) + 1, objs |-> Append(o, CallerFields)]
    ELSE IF \E k \in 1..Len(o) : CallerFields \cap o[k] = {}
    THEN [id |-> CHOOSE k \in 1..Len(o) : CallerFields \cap o[k] = {},
          objs |-> o]
    ELSE [id |-> Len(o) + 1, objs |-> Append(o, {})]

\* build_post_form_args: the mapping the call works on: the caller's, or
\* (if fields is None: fields = {}) a new empty one.
FieldsObject(o, given) ==
    IF given THEN [id |-> Len(o) + 1, objs |-> Append(o, CallerFields)]
    ELSE [id |-> Len(o) + 1, objs |-> Append(o, {})]

\* build_post_form_args: expires_in=3600
DefaultExpiresIn == 3600

\* build_post_form_args: the policy document.
Policy(conditions, expires_in) ==
    [expiration |-> <<"utcnow", expires_in>>,
     conditions |-> IF conditions = None THEN <<>> ELSE conditions]

\* A variant of SelfAfterSign that keeps the effective version as the
\* signer's version.
SelfAfterSignStoresOverride(self, signature_version) ==
    [self EXCEPT !.signature_version = signature_version]

\* The signer's fields after sign: sign assigns to none of them.
SelfAfterSign(self, signature_version) == self

(***************************************************************************)
(* The inputs.                                                             *)
(***************************************************************************)
SignerIds == {1}

ServiceName == <<"s", "v", "c">>

CtorArgs ==
    [service_name : {ServiceName},
     region_name : {None, RegionB},
     signing_name : {NameS},
     signature_version : {V4, V4Query, S3, S3Post},
     credentials : {"credentials"}]

GetAuthNames == {NameS, NameBDotS}
GetAuthRegions == {None, RegionNoneText, RegionA, RegionADotB}
GetAuthVersions == {None, V4, S3}
Responses == {None, UNSIGNED, V4, S3, V4DotA}
ExpiresIn == {{}, {60}, {3600}}
PresignRegions == {None, RegionA}
Conditions == {None, <<"acl">>}

(***************************************************************************)
(* The state after construction, and the public calls.                     *)
(***************************************************************************)
\* RequestSigner.__init__
Init ==
    /\ ctor \in [SignerIds -> CtorArgs]
    /\ cfg = ctor
    /\ cache = [i \in SignerIds |-> EmptyCache]
    /\ heap = <<>>
    /\ objs = <<>>
    /\ credUses = 0
    /\ returned = {}
    /\ overrides = [i \in SignerIds |-> {}]
    /\ ncalls = 0
    /\ last = NoCall
    /\ thr = <<>>

\* A caller's get_auth(signing_name, region_name, signature_version).
GetAuthCall(i, signing_name, region_name, signature_version) ==
    /\ LET g == GetAuth(cfg[i], cache[i], heap, signing_name, region_name,
                        signature_version, {})
           e == GetAuthEntry(signing_name, region_name, signature_version,
                             {}, g)
       IN  /\ cache' = [cache EXCEPT ![i] = g.cache]
           /\ heap' = g.heap
           /\ returned' = Returned("get_auth", i, e)
           /\ last' = [Begin("get_auth", i) EXCEPT
                          !.outcome = g.outcome, !.version = g.version,
                          !.ga = e, !.region_arg = region_name,
                          !.trace = HookEvents("get_auth", g.version)
                                        \o <<"get_auth">>]
    /\ ncalls' = ncalls + 1
    /\ UNCHANGED <<ctor, cfg, objs, credUses, overrides, thr>>

\* sign(operation_name, request), where the choose-signer listeners answer
\* response and the before-sign listeners mutate the request or do not.
Sign(i, response, mutate) ==
    /\ LET self == cfg[i]
           version == EffectiveVersion(self.signature_version, response)
           events == HookEvents("sign", version)
           request == IF Emits(events, "before-sign")
                      THEN BeforeSign(NewRequest, mutate) ELSE NewRequest
           j == [Begin("sign", i) EXCEPT
                    !.response = response, !.version = version,
                    !.hookVersion =
                        BeforeSignVersion(self.signature_version, version),
                    !.mutate = mutate, !.region_arg = self.region_name,
                    !.reqHook = request, !.reqOut = request,
                    !.trace = events]
           g == GetAuth(self, cache[i], heap, self.signing_name,
                        self.region_name, version, {})
           e == GetAuthEntry(self.signing_name, self.region_name, version,
                             {}, g)
       IN  /\ cfg' = [cfg EXCEPT ![i] = SelfAfterSign(self, version)]
           /\ IF ~ShouldSign(version)
              THEN /\ last' = [j EXCEPT !.outcome = "ok"]
                   /\ UNCHANGED <<cache, heap, returned, credUses>>
              ELSE /\ cache' = [cache EXCEPT ![i] = g.cache]
                   /\ heap' = g.heap
                   /\ returned' = Returned("sign", i, e)
                   /\ IF g.outcome = "ok"
                      THEN /\ last' = [j EXCEPT
                                  !.outcome = "ok", !.ga = e,
                                  !.applied = g.ret,
                                  !.reqOut = AddAuth(g.ret, request),
                                  !.trace = @ \o <<"get_auth">> \o
                                      AddAuth(g.ret, request).log]
                           /\ credUses' = credUses + 1
                      ELSE /\ last' = [j EXCEPT
                                  !.outcome = g.outcome, !.ga = e,
                                  !.trace = @ \o <<"get_auth">>]
                           /\ credUses' = credUses
    /\ overrides' = [overrides EXCEPT ![i] = @ \cup ({response} \ {None})]
    /\ ncalls' = ncalls + 1
    /\ UNCHANGED <<ctor, objs, thr>>

\* generate_url(request_dict, expires_in, region_name); expires_in is {} for
\* None.
GenerateUrl(i, expires_in, region_name) ==
    /\ LET self == cfg[i]
           region == ResolveRegion(self, region_name)
           version == DeriveVariant(self.signature_version, QuerySuffix)
           g == GetAuth(self, cache[i], heap, self.signing_name, region,
                        version, expires_in)
           e == GetAuthEntry(self.signing_name, region, version, expires_in, g)
           signed == UrlSteps(g.ret, NewRequest, SplitFirstDash(version),
                              region)
           j == [Begin("generate_url", i) EXCEPT
                    !.version = version, !.expires_in = expires_in, !.ga = e,
                    !.region_arg = region_name, !.outcome = g.outcome,
                    !.trace = HookEvents("generate_url", version)
                                  \o <<"get_auth">>]
       IN  /\ cache' = [cache EXCEPT ![i] = g.cache]
           /\ heap' = g.heap
           /\ returned' = Returned("generate_url", i, e)
           /\ IF g.outcome = "ok"
              THEN /\ last' = [j EXCEPT
                          !.applied = g.ret, !.reqOut = signed,
                          !.url = signed,
                          !.trace = @ \o <<"create_request_object">>
                                      \o signed.log]
                   /\ credUses' = credUses + 1
              ELSE /\ last' = j
                   /\ credUses' = credUses
    /\ ncalls' = ncalls + 1
    /\ UNCHANGED <<ctor, cfg, objs, overrides, thr>>

\* build_post_form_args(request_dict, fields, conditions, 3600, region_name);
\* given tells whether the caller supplies fields.
BuildPostFormArgs(i, given, conditions, region_name) ==
    /\ LET self == cfg[i]
           f == FieldsObject(objs, given)
           region == ResolveRegion(self, region_name)
           policy == Policy(conditions, DefaultExpiresIn)
           version == DeriveVariant(self.signature_version, PostSuffix)
           g == GetAuth(self, cache[i], heap, self.signing_name, region,
                        version, {})
           e == GetAuthEntry(self.signing_name, region, version, {}, g)
           request == [NewRequest EXCEPT !.fields = f.id, !.policy = {policy}]
           signed == PostSteps(g.ret, request, SplitFirstDash(version),
                               region)
           j == [Begin("build_post_form_args", i) EXCEPT
                    !.version = version, !.given = given, !.ga = e,
                    !.region_arg = region_name, !.outcome = g.outcome,
                    !.trace = HookEvents("build_post_form_args", version)
                                  \o <<"get_auth">>]
       IN  /\ cache' = [cache EXCEPT ![i] = g.cache]
           /\ heap' = g.heap
           /\ returned' = Returned("build_post_form_args", i, e)
           /\ IF g.outcome = "ok"
              THEN /\ last' = [j EXCEPT
                          !.applied = g.ret, !.reqOut = signed,
                          !.url = signed, !.fields = f.id,
                          !.trace = @ \o <<"create_request_object">>
                                      \o signed.log]
                   /\ objs' = AddAuthFields(f.objs, g.heap, g.ret, request,
                                            ncalls + 1)
                   /\ credUses' = credUses + 1
              ELSE /\ last' = j
                   /\ objs' = f.objs
                   /\ credUses' = credUses
    /\ ncalls' = ncalls + 1
    /\ UNCHANGED <<ctor, cfg, overrides, thr>>

\* The runs explored make at most MaxCalls public calls.
MayCall == ncalls < MaxCalls

Next ==
    \/ \E i \in DOMAIN cfg, n \in GetAuthNames, r \in GetAuthRegions,
          v \in GetAuthVersions : MayCall /\ GetAuthCall(i, n, r, v)
    \/ \E i \in DOMAIN cfg, r \in Responses, m \in BOOLEAN :
          MayCall /\ Sign(i, r, m)
    \/ \E i \in DOMAIN cfg, x \in ExpiresIn, r \in PresignRegions :
          MayCall /\ GenerateUrl(i, x, r)
    \/ \E i \in DOMAIN cfg, g \in BOOLEAN, c \in Conditions,
          r \in PresignRegions : MayCall /\ BuildPostFormArgs(i, g, c, r)

Spec == Init /\ [][Next]_vars

(***************************************************************************)
(* Two signers side by side.                                               *)
(***************************************************************************)
PairIds == {1, 2}

PairCtorArgs ==
    [service_name : {ServiceName},
     region_name : {RegionB},
     signing_name : {NameS},
     signature_version : {V4, S3},
     credentials : {"credentials"}]

\* RequestSigner.__init__, twice.
InitPair ==
    /\ ctor \in [PairIds -> PairCtorArgs]
    /\ cfg = ctor
    /\ cache = [i \in PairIds |-> EmptyCache]
    /\ heap = <<>>
    /\ objs = <<>>
    /\ credUses = 0
    /\ returned = {}
    /\ overrides = [i \in PairIds |-> {}]
    /\ ncalls = 0
    /\ last = NoCall
    /\ thr = <<>>

NextPair ==
    \/ \E i \in DOMAIN cfg, r \in {None, RegionA}, v \in {None, V4} :
          MayCall /\ GetAuthCall(i, NameS, r, v)
    \/ \E i \in DOMAIN cfg, r \in {None, UNSIGNED, S3}, m \in BOOLEAN :
          MayCall /\ Sign(i, r, m)
    \/ \E i \in DOMAIN cfg, x \in {{}, {60}} :
          MayCall /\ GenerateUrl(i, x, None)
    \/ \E i \in DOMAIN cfg, g \in BOOLEAN :
          MayCall /\ BuildPostFormArgs(i, g, None, None)

SpecPair == InitPair /\ [][NextPair]_vars

(***************************************************************************)
(* Longer runs of sign, generate_url and build_post_form_args on one       *)
(* signer in one region, long enough for the three methods to have each    *)
(* cached a strategy.                                                      *)
(***************************************************************************)
VariantCtorArgs ==
    [service_name : {ServiceName},
     region_name : {RegionB},
     signing_name : {NameS},
     signature_version : {V4, V4Query, S3, S3Post},
     credentials : {"credentials"}]

VariantResponses == {None, V4Query, S3Post}

\* RequestSigner.__init__
InitVariants ==
    /\ ctor \in [SignerIds -> VariantCtorArgs]
    /\ cfg = ctor
    /\ cache = [i \in SignerIds |-> EmptyCache]
    /\ heap = <<>>
    /\ objs = <<>>
    /\ credUses = 0
    /\ returned = {}
    /\ overrides = [i \in SignerIds |-> {}]
    /\ ncalls = 0
    /\ last = NoCall
    /\ thr = <<>>

\* The runs explored make at most MaxVariantCalls public calls.
MayCallVariants == ncalls < MaxVariantCalls

NextVariants ==
    \/ \E i \in DOMAIN cfg, r \in VariantResponses :
          MayCallVariants /\ Sign(i, r, FALSE)
    \/ \E i \in DOMAIN cfg, r \in PresignRegions :
          MayCallVariants /\ GenerateUrl(i, {}, r)
    \/ \E i \in DOMAIN cfg, r \in PresignRegions :
          MayCallVariants /\ BuildPostFormArgs(i, FALSE, None, r)

SpecVariants == InitVariants /\ [][NextVariants]_vars

(***************************************************************************)
(* get_auth calls running concurrently on one signer.  A thread's call is   *)
(* cut into the steps between which other threads can run: the cache       *)
(* lookup, the start and the end of the constructor, the cache store.      *)
(***************************************************************************)
Threads == 1..NumThreads

ConcCtorArgs ==
    [service_name : {ServiceName},
     region_name : {None, RegionB},
     signing_name : {NameS},
     signature_version : {V4, S3},
     credentials : {"credentials"}]

ConcRegions == {None, RegionA}
ConcVersions == {None, S3, V4DotA}

IdleThread ==
    [pc |-> "idle", signing_name |-> None, region_name |-> None,
     version |-> None, key |-> <<>>, inst |-> 0, constructed |-> FALSE,
     hit |-> FALSE, ret |-> 0, outcome |-> "none", stamp |-> 0]

InitConc ==
    /\ ctor \in [SignerIds -> ConcCtorArgs]
    /\ cfg = ctor
    /\ cache = [i \in SignerIds |-> EmptyCache]
    /\ heap = <<>>
    /\ objs = <<>>
    /\ credUses = 0
    /\ returned = {}
    /\ overrides = [i \in SignerIds |-> {}]
    /\ ncalls = 0
    /\ last = NoCall
    /\ thr = [t \in Threads |-> IdleThread]

\* The signer the threads share.
Shared == CHOOSE i \in SignerIds : TRUE

\* A variant of CacheStore that leaves an entry already present alone.
CacheStoreKeepFirst(c, key, id) ==
    IF key \in DOMAIN c THEN c ELSE (key :> id) @@ c

\* self._cache[key] = auth
CacheStore(c, key, id) == (key :> id) @@ c

\* A variant of MayStore that lets the store run while the constructor is
\* still running.
MayStoreEarly(pc) == pc \in {"constructing", "built"}

\* The store follows the constructor's return: auth = cls(**kwargs) and then
\* self._cache[key] = auth.
MayStore(pc) == pc = "built"

ConcUnchanged ==
    UNCHANGED <<ctor, cfg, objs, credUses, returned, overrides, ncalls, last>>

\* Thread t enters get_auth(signing_name, region_name, signature_version)
\* and builds the key.
ConcCall(t, signing_name, region_name, signature_version) ==
    /\ thr[t].pc = "idle"
    /\ LET version == IF signature_version = None
                      THEN cfg[Shared].signature_version
                      ELSE signature_version
       IN  thr' = [thr EXCEPT ![t] =
                      [@ EXCEPT !.pc = "lookup",
                                !.signing_name = signing_name,
                                !.region_name = region_name,
                                !.version = version,
                                !.key = CacheKey(version, region_name,
                                                 signing_name)]]
    /\ UNCHANGED <<cache, heap>>
    /\ ConcUnchanged

\* if key in self._cache: return self._cache[key]; otherwise the registry
\* lookup and the region test, which read nothing another thread writes.
ConcLookup(t) ==
    /\ thr[t].pc = "lookup"
    /\ LET me == thr[t]
       IN  thr' = [thr EXCEPT ![t] =
               IF me.key \in DOMAIN cache[Shared]
               THEN [me EXCEPT !.pc = "done", !.hit = TRUE, !.outcome = "ok",
                               !.ret = cache[Shared][me.key]]
               ELSE IF me.version \notin AUTH_TYPE_MAPS
               THEN [me EXCEPT !.pc = "done",
                               !.outcome = "UnknownSignatureVersionError"]
               ELSE IF /\ REQUIRES_REGION(me.version)
                       /\ cfg[Shared].region_name = None
               THEN [me EXCEPT !.pc = "done", !.outcome = "NoRegionError"]
               ELSE [me EXCEPT !.pc = "construct"]]
    /\ UNCHANGED <<cache, heap>>
    /\ ConcUnchanged

\* cls(**kwargs) starts: the instance exists, its constructor is running.
ConcConstructBegin(t) ==
    /\ thr[t].pc = "construct"
    /\ heap' = Append(heap, NewAuth(cfg[Shared], thr[t].version,
                                    thr[t].region_name, thr[t].signing_name,
                                    {}))
    /\ thr' = [thr EXCEPT ![t] =
                  [@ EXCEPT !.pc = "constructing", !.inst = Len(heap) + 1]]
    /\ UNCHANGED cache
    /\ ConcUnchanged

\* cls(**kwargs) returns.
ConcConstructEnd(t) ==
    /\ thr[t].pc = "constructing"
    /\ thr' = [thr EXCEPT ![t] =
                  [@ EXCEPT !.pc = "built", !.constructed = TRUE]]
    /\ UNCHANGED <<cache, heap>>
    /\ ConcUnchanged

\* self._cache[key] = auth; return auth
ConcStore(t) ==
    /\ MayStore(thr[t].pc)
    /\ cache' = [cache EXCEPT ![Shared] = CacheStore(@, thr[t].key,
                                                     thr[t].inst)]
    /\ thr' = [thr EXCEPT ![t] =
                  [@ EXCEPT !.pc = "done", !.outcome = "ok",
                            !.ret = thr[t].inst,
                            !.stamp = 1 + Cardinality(
                                {u \in Threads : thr[u].stamp > 0})]]
    /\ UNCHANGED heap
    /\ ConcUnchanged

NextConc ==
    \/ \E t \in Threads, r \in ConcRegions, v \in ConcVersions :
          ConcCall(t, NameS, r, v)
    \/ \E t \in Threads : ConcLookup(t)
    \/ \E t \in Threads : ConcConstructBegin(t)
    \/ \E t \in Threads : ConcConstructEnd(t)
    \/ \E t \in Threads : ConcStore(t)

SpecConc == InitConc /\ [][NextConc]_vars

(***************************************************************************)
(* The claims.                                                             *)
(***************************************************************************)
SameTuple(a, b) ==
    /\ a.signer = b.signer
    /\ a.signature_version = b.signature_version
    /\ a.region_name = b.region_name
    /\ a.signing_name = b.signing_name

\* The instance a call's journal names as applied, as it is now.
Applied(j) == heap[j.applied]

\* C1: on one signer, any two successful get_auth calls (direct, or made by
\* sign, generate_url or build_post_form_args) with the same
\* (signature_version, region_name, signing_name) return the same instance,
\* and at most one of the calls for a tuple constructs an instance.
C1_SameTupleSameInstance ==
    \A a, b \in returned :
        SameTuple(a, b) =>
            /\ a.inst = b.inst
            /\ (~a.hit /\ ~b.hit) => a = b

\* A second get_auth call for a tuple has been answered from the cache.
C1_Witness ==
    \E a, b \in returned : SameTuple(a, b) /\ ~a.hit /\ b.hit

\* C2: on one signer, two get_auth calls whose (signature_version,
\* region_name, signing_name) tuples differ in any component never return
\* the same instance.
C2_DistinctTuplesDistinctInstances ==
    \A a, b \in returned :
        (a.signer = b.signer /\ ~SameTuple(a, b)) => a.inst # b.inst

\* C3: the strategy generate_url applies was constructed with expires equal
\* to the call's expires_in, and with no expires when the call gives none.
C3_UrlStrategyCarriesExpiry ==
    (last.op = "generate_url" /\ last.outcome = "ok") =>
        Applied(last).expires = last.expires_in

\* Nothing was constructed, stored or applied during the latest call, and
\* the request is as the before-sign listeners left it.
NothingSigned ==
    /\ Len(heap) = last.heapBefore
    /\ cache[last.signer] = last.cacheBefore
    /\ credUses = last.credBefore
    /\ last.applied = 0
    /\ last.reqOut = last.reqHook

\* C4: when the choose-signer listeners answer botocore.UNSIGNED, sign
\* returns normally without calling get_auth: no strategy is constructed or
\* applied, the cache is unchanged, and the request is as the before-sign
\* listeners left it.
C4_UnsignedBypass ==
    (last.op = "sign" /\ last.response = UNSIGNED) =>
        /\ last.outcome = "ok"
        /\ ~last.ga.called
        /\ NothingSigned

\* sign was answered UNSIGNED on a signer whose cache already holds an
\* instance, after the before-sign listeners mutated the request.
C4_Witness ==
    /\ last.op = "sign"
    /\ last.response = UNSIGNED
    /\ last.reqHook.hooked
    /\ last.cacheBefore # EmptyCache

\* C5: in a sign call with no choose-signer response the effective version
\* is the version given at construction, whatever earlier calls were
\* answered; a response that is not None is the effective version of that
\* call; and the signer's fields stay as constructed.
C5_DefaultVersionKept ==
    /\ cfg = ctor
    /\ last.op = "sign" =>
        /\ last.response = None =>
               last.version = ctor[last.signer].signature_version
        /\ last.response # None => last.version = last.response
        /\ last.ga.called => last.ga.signature_version = last.version

\* sign got no response on a signer where an earlier sign was answered with
\* another version, and went on to look up a strategy.
C5_Witness ==
    /\ last.op = "sign"
    /\ last.response = None
    /\ last.ga.called
    /\ overrides[last.signer] \ {ctor[last.signer].signature_version} # {}

\* C6: when the effective version of a sign call is not UNSIGNED and has no
\* registered constructor, sign fails with UnknownSignatureVersionError, no
\* strategy is constructed or applied, the cache is unchanged, and the
\* request is as the before-sign listeners left it.
C6_UnknownVersionFails ==
    (/\ last.op = "sign"
     /\ last.version # UNSIGNED
     /\ last.version \notin AUTH_TYPE_MAPS) =>
        /\ last.outcome = "UnknownSignatureVersionError"
        /\ NothingSigned

\* C7: a get_auth call for a registered, region-requiring version whose key
\* is not cached fails with NoRegionError exactly when neither the
\* region_name argument nor the configured region gives a region, and
\* otherwise builds the strategy with a region that is not None.
C7_MissingRegionIffNoRegion ==
    (/\ last.ga.called
     /\ ~last.ga.hit
     /\ last.ga.version \in AUTH_TYPE_MAPS
     /\ REQUIRES_REGION(last.ga.version)) =>
        /\ last.ga.outcome = "NoRegionError" <=>
               (/\ last.ga.region_name = None
                /\ cfg[last.signer].region_name = None)
        /\ last.ga.outcome = "ok" => heap[last.ga.ret].region_name # {None}

\* C8: when get_auth fails with NoRegionError no constructor has run, no
\* credentials have been used and the cache is unchanged; and a get_auth
\* call for an unregistered version whose key is not cached fails with
\* UnknownSignatureVersionError, whether or not a region is configured.
C8_MissingRegionBeforeConstruction ==
    /\ last.ga.outcome = "NoRegionError" => NothingSigned
    /\ (/\ last.ga.called
        /\ ~last.ga.hit
        /\ last.ga.version \notin AUTH_TYPE_MAPS) =>
           last.ga.outcome = "UnknownSignatureVersionError"

\* get_auth failed with NoRegionError on a signer whose cache already holds
\* an instance.
C8_Witness ==
    /\ last.ga.outcome = "NoRegionError"
    /\ last.cacheBefore # EmptyCache

\* The versions without a presign suffix that signers are constructed with.
BaseVersions == {V4, S3}

\* C9: a signer constructed with v and a signer constructed with v plus the
\* presign suffix both ask get_auth for v plus the suffix, once: '-query' in
\* generate_url, '-presign-post' in build_post_form_args; and for a version
\* that does not end with the suffix the version asked for differs from it.
C9_VariantIdempotent ==
    \A v \in BaseVersions :
        LET configured == ctor[last.signer].signature_version
            asked == last.ga.signature_version
        IN  /\ (/\ last.op = "generate_url"
                /\ configured \in {v, v \o QuerySuffix}) =>
                   asked = v \o QuerySuffix
            /\ (/\ last.op = "build_post_form_args"
                /\ configured \in {v, v \o PostSuffix}) =>
                   asked = v \o PostSuffix
            /\ (/\ last.op = "generate_url"
                /\ ~EndsWith(configured, QuerySuffix)) => asked # configured
            /\ (/\ last.op = "build_post_form_args"
                /\ ~EndsWith(configured, PostSuffix)) => asked # configured

\* generate_url ran on a signer constructed with a version that already
\* ends with '-query'.
C9_Witness ==
    /\ last.op = "generate_url"
    /\ last.outcome = "ok"
    /\ EndsWith(ctor[last.signer].signature_version, QuerySuffix)

\* C10: build_post_form_args returns the mapping it stored in the request's
\* side-table: the entries the strategy adds in this call are in it, a
\* caller's entries are still in it, and when the caller supplies no
\* mapping it holds no entry of an earlier call.
C10_FieldsSameObject ==
    (last.op = "build_post_form_args" /\ last.outcome = "ok") =>
        /\ last.fields = last.reqOut.fields
        /\ last.fields \in 1..Len(objs)
        /\ StrategyFields(ncalls) \subseteq objs[last.fields]
        /\ last.given => CallerFields \subseteq objs[last.fields]
        /\ ~last.given => objs[last.fields] = StrategyFields(ncalls)

\* build_post_form_args succeeded without fields after an earlier call in
\* which the strategy added its entries to a defaulted mapping.
C10_Witness ==
    /\ last.op = "build_post_form_args"
    /\ last.outcome = "ok"
    /\ ~last.given
    /\ \E k \in 1..Len(objs) :
          /\ k # last.fields
          /\ objs[k] # {}
          /\ objs[k] \cap CallerFields = {}

PresignOps == {"generate_url", "build_post_form_args"}

\* C11: the choose-signer and before-sign events are emitted by sign calls
\* only, never by generate_url or build_post_form_args, and the version a
\* presign call asks get_auth for is the constructed version with the
\* presign suffix, whatever the choose-signer listeners answered before.
C11_PresignEmitsNoHooks ==
    /\ (Emits(last.trace, "choose-signer") \/ Emits(last.trace, "before-sign"))
           => last.op = "sign"
    /\ last.op = "generate_url" =>
           last.ga.signature_version \in
               {ctor[last.signer].signature_version,
                ctor[last.signer].signature_version \o QuerySuffix}
    /\ last.op = "build_post_form_args" =>
           last.ga.signature_version \in
               {ctor[last.signer].signature_version,
                ctor[last.signer].signature_version \o PostSuffix}

\* generate_url succeeded on a signer whose choose-signer listeners answered
\* an override in an earlier sign call.
C11_Witness ==
    /\ last.op = "generate_url"
    /\ last.outcome = "ok"
    /\ overrides[last.signer] \ {UNSIGNED} # {}

SignOrder == <<"choose-signer", "before-sign", "get_auth", "add_auth">>

\* C12: a sign call emits choose-signer, then before-sign, then looks up
\* the strategy, then applies it; the version the before-sign event carries
\* is the resolved effective version, and it is the version asked of
\* get_auth.
C12_SignOrder ==
    last.op = "sign" =>
        /\ Len(last.trace) \in 2..Len(SignOrder)
        /\ last.trace = SubSeq(SignOrder, 1, Len(last.trace))
        /\ last.applied # 0 => last.trace = SignOrder
        /\ last.hookVersion = last.version
        /\ last.ga.called => last.ga.signature_version = last.hookVersion

\* sign applied a strategy for a version the choose-signer listeners
\* answered, different from the constructed one.
C12_Witness ==
    /\ last.op = "sign"
    /\ last.applied # 0
    /\ last.response \notin {None, ctor[last.signer].signature_version}

\* C13: every sign call emits before-sign exactly once, whether it signs,
\* skips signing (UNSIGNED) or fails in get_auth, and what the listeners
\* did to the request stays done.
C13_BeforeSignOnce ==
    last.op = "sign" =>
        /\ Cardinality({k \in DOMAIN last.trace :
                           last.trace[k] = "before-sign"}) = 1
        /\ last.reqHook.hooked = last.mutate
        /\ last.reqOut.hooked = last.mutate

\* sign failed in get_auth after the before-sign listeners had mutated the
\* request.
C13_Witness ==
    /\ last.op = "sign"
    /\ last.outcome \in {"UnknownSignatureVersionError", "NoRegionError"}
    /\ last.mutate

\* C14: get_auth falls back to the configured region when its region_name
\* is None: such a call returns the instance a call with the configured
\* region returns, and the strategy it builds gets the configured region.
C14_RegionFallback ==
    /\ \A a, b \in returned :
           (/\ a.signer = b.signer
            /\ a.signature_version = b.signature_version
            /\ a.signing_name = b.signing_name
            /\ a.region_name = None
            /\ b.region_name = cfg[a.signer].region_name) => a.inst = b.inst
    /\ \A a \in returned :
           (/\ a.region_name = None
            /\ ~a.hit
            /\ REQUIRES_REGION(a.signature_version)) =>
               heap[a.inst].region_name = {cfg[a.signer].region_name}

\* The text of a version without its presign suffix.
BaseOf(signature_version) ==
    IF EndsWith(signature_version, QuerySuffix)
    THEN SubSeq(signature_version, 1,
                Len(signature_version) - Len(QuerySuffix))
    ELSE IF EndsWith(signature_version, PostSuffix)
    THEN SubSeq(signature_version, 1,
                Len(signature_version) - Len(PostSuffix))
    ELSE signature_version

HasPresignSuffix(signature_version) ==
    BaseOf(signature_version) # signature_version

SignOps == {"sign"} \cup PresignOps

\* Two strategies applied by different public methods on one signer, for
\* the one region and signing name.
SameSigning(a, b) ==
    /\ a.signer = b.signer
    /\ a.op \in SignOps
    /\ b.op \in SignOps
    /\ a.op # b.op
    /\ a.region_name = b.region_name
    /\ a.signing_name = b.signing_name

KeyOf(a) == CacheKey(a.signature_version, a.region_name, a.signing_name)

\* C15 as stated: for the same base version, region and signing name, the
\* strategies sign, generate_url and build_post_form_args apply are held
\* under different cache keys and are different instances; sign never
\* applies a strategy a presign call built, nor the reverse.
C15_SeparateStrategies ==
    \A a, b \in returned :
        (/\ SameSigning(a, b)
         /\ BaseOf(a.signature_version) = BaseOf(b.signature_version)) =>
            /\ a.inst # b.inst
            /\ KeyOf(a) # KeyOf(b)

\* C15, amended: for the one region and signing name, strategies that
\* different methods asked for under different version identifiers are held
\* under different cache keys and are different instances; generate_url and
\* build_post_form_args never share one; sign shares none with a presign
\* call when the version it resolved carries no presign suffix, and shares
\* the instance when the version it resolved is the presign call's variant.
C15_SeparateUnlessVariant ==
    \A a, b \in returned :
        SameSigning(a, b) =>
            /\ a.signature_version # b.signature_version =>
                   /\ a.inst # b.inst
                   /\ KeyOf(a) # KeyOf(b)
            /\ (a.op = "generate_url" /\ b.op = "build_post_form_args") =>
                   a.inst # b.inst
            /\ (/\ a.op = "sign"
                /\ ~HasPresignSuffix(a.signature_version)) =>
                   a.inst # b.inst
            /\ (/\ a.op = "sign"
                /\ a.signature_version = b.signature_version) =>
                   /\ HasPresignSuffix(a.signature_version)
                   /\ a.inst = b.inst

\* sign, generate_url and build_post_form_args have each applied a strategy
\* on one signer for the one region, sign under a version without presign
\* suffix, and the cache holds the three.
C15_Witness ==
    \E a, b, c \in returned :
        /\ SameSigning(a, b) /\ SameSigning(b, c) /\ SameSigning(a, c)
        /\ a.op = "sign"
        /\ ~HasPresignSuffix(a.signature_version)
        /\ b.op = "generate_url"
        /\ c.op = "build_post_form_args"
        /\ {KeyOf(a), KeyOf(b), KeyOf(c)} \subseteq DOMAIN cache[a.signer]
        /\ Cardinality({a.inst, b.inst, c.inst}) = 3

\* The region a presign call resolves: its argument, else the constructed
\* region.
ExpectedRegion ==
    IF last.region_arg = None THEN ctor[last.signer].region_name
    ELSE last.region_arg

\* The rewriter was called once, with the text of the constructed version
\* before its first '-' and the resolved region.
RewrittenOnce ==
    \E v \in BaseVersions :
        /\ SubSeq(ctor[last.signer].signature_version, 1, Len(v)) = v
        /\ last.url.rewrites = <<<<v, ExpectedRegion>>>>

\* C16: generate_url runs the rewriter, then add_auth, then prepare, and
\* returns the URL of the prepared request; build_post_form_args runs
\* add_auth, then the rewriter, never prepare, and returns the URL the
\* rewriter left.
C16_PresignStepOrder ==
    /\ (last.op = "generate_url" /\ last.outcome = "ok") =>
           /\ last.trace = <<"get_auth", "create_request_object",
                             "fix_s3_host", "add_auth", "prepare">>
           /\ last.url.prepared
           /\ last.url.auth = <<last.applied>>
           /\ RewrittenOnce
    /\ (last.op = "build_post_form_args" /\ last.outcome = "ok") =>
           /\ last.trace = <<"get_auth", "create_request_object",
                             "add_auth", "fix_s3_host">>
           /\ ~last.url.prepared
           /\ last.url.auth = <<last.applied>>
           /\ RewrittenOnce

\* build_post_form_args succeeded with an explicit region.
C16_Witness ==
    /\ last.op = "build_post_form_args"
    /\ last.outcome = "ok"
    /\ last.region_arg # None

\* The tuples get_auth can be asked for.
TupleVersions == {V4, V4Query, S3, S3Query, S3Post, V4DotA}
TupleRegions == {None, RegionNoneText, RegionA, RegionB, RegionADotB}
TupleNames == {NameS, NameBDotS}

\* C20: the instance the cache holds for a tuple (signature_version,
\* region_name, signing_name) was built by the constructor registered for
\* that version, with the signer's credentials and, when the constructor
\* requires a region, with that region and that signing name; and the cache
\* holds nothing for an unregistered version.
C20_EntriesMatchKeys ==
    \A i \in DOMAIN cache, v \in TupleVersions, r \in TupleRegions,
       n \in TupleNames :
        LET key == CacheKey(v, r, n)
            auth == heap[cache[i][key]]
        IN  key \in DOMAIN cache[i] =>
                /\ v \in AUTH_TYPE_MAPS
                /\ auth.cls = v
                /\ auth.credentials = cfg[i].credentials
                /\ REQUIRES_REGION(v) =>
                       /\ auth.region_name = {r}
                       /\ auth.service_name = {n}


\* One step leaves every cached key in place with the instance it had, and
\* touches no cache but that of the signer the call was made on.
CacheOnlyGrows ==
    \A i \in DOMAIN cache :
        /\ \A k \in DOMAIN cache[i] :
               /\ k \in DOMAIN cache'[i]
               /\ cache'[i][k] = cache[i][k]
        /\ i # last'.signer => cache'[i] = cache[i]

\* C17: the signer cache is append-only: a new RequestSigner starts with an
\* empty cache, across any sequence of operations the set of cached keys
\* never shrinks and the instance under a key never changes, and operations
\* on one RequestSigner never change the cache of another.
C17_AppendOnlyCache ==
    /\ \A i \in DOMAIN cache : cache[i] = EmptyCache
    /\ [][CacheOnlyGrows]_vars

\* Each of the two signers has stored an entry of its own.
C17_Witness ==
    /\ DOMAIN cache = PairIds
    /\ \A i \in PairIds : cache[i] # EmptyCache
    /\ cache[1] # cache[2]

\* The instance id was handed out to a thread whose constructor has returned.
Constructed(id) ==
    \E t \in DOMAIN thr : thr[t].inst = id /\ thr[t].constructed

\* The thread's get_auth call has returned a strategy.
Finished(t) == thr[t].pc = "done" /\ thr[t].outcome = "ok"

\* The thread's call ran the cache store.
Stored(t) == thr[t].stamp > 0

SameCall(t, u) ==
    /\ thr[t].version = thr[u].version
    /\ thr[t].region_name = thr[u].region_name
    /\ thr[t].signing_name = thr[u].signing_name

\* C18 as stated: concurrent get_auth calls for the same tuple all return
\* the same strategy instance, and that instance is the one in the cache.
C18_AllCallersSameInstance ==
    \A t \in DOMAIN thr, u \in DOMAIN thr :
        (Finished(t) /\ Finished(u) /\ SameCall(t, u)) =>
            /\ thr[t].ret = thr[u].ret
            /\ cache[Shared][thr[t].key] = thr[t].ret

\* C18, amended: among concurrent get_auth calls for the same tuple, a call
\* that finds the key in the cache returns an instance that a store put
\* there before, a call that misses returns the instance it built itself, so
\* calls that all miss return different instances, and the instance left in
\* the cache is the one returned by the call that stored last.
C18_LastWriterWins ==
    \A t \in DOMAIN thr :
        Finished(t) =>
            /\ Constructed(thr[t].ret)
            /\ thr[t].hit =>
                   \E u \in DOMAIN thr :
                       /\ Stored(u)
                       /\ thr[u].key = thr[t].key
                       /\ thr[u].inst = thr[t].ret
            /\ ~thr[t].hit =>
                   /\ Stored(t)
                   /\ thr[t].ret = thr[t].inst
                   /\ \A u \in DOMAIN thr :
                          (u # t /\ Finished(u) /\ ~thr[u].hit) =>
                              thr[u].ret # thr[t].ret
            /\ \A u \in DOMAIN thr :
                   (/\ Stored(u)
                    /\ thr[u].key = thr[t].key
                    /\ \A w \in DOMAIN thr :
                           (Stored(w) /\ thr[w].key = thr[t].key) =>
                               thr[w].stamp <= thr[u].stamp) =>
                       cache[Shared][thr[t].key] = thr[u].ret

\* Two calls for the same tuple both missed, both built and both stored.
C18_Witness ==
    \E t \in DOMAIN thr, u \in DOMAIN thr :
        /\ t # u
        /\ SameCall(t, u)
        /\ Finished(t) /\ Finished(u)
        /\ Stored(t) /\ Stored(u)

\* C19: under every interleaving of concurrent get_auth calls, a value in
\* the cache or returned to a caller is a fully constructed strategy, no
\* stored entry is lost, and every key a call built and stored has one cache
\* entry, holding one of the instances constructed for that key.
C19_ConcurrentCacheSound ==
    /\ \A k \in DOMAIN cache[Shared] : Constructed(cache[Shared][k])
    /\ \A t \in DOMAIN thr :
           /\ Finished(t) =>
                  /\ Constructed(thr[t].ret)
                  /\ thr[t].ret \in DOMAIN heap
           /\ Stored(t) =>
                  /\ thr[t].key \in DOMAIN cache[Shared]
                  /\ \E u \in DOMAIN thr :
                         /\ thr[u].key = thr[t].key
                         /\ thr[u].constructed
                         /\ Stored(u)
                         /\ thr[u].inst = cache[Shared][thr[t].key]

\* Two threads have stored under different keys and the cache holds both
\* entries.
C19_Witness ==
    \E t \in DOMAIN thr, u \in DOMAIN thr :
        /\ Stored(t) /\ Stored(u)
        /\ thr[t].key # thr[u].key
        /\ cache[Shared][thr[t].key] = thr[t].inst
        /\ cache[Shared][thr[u].key] = thr[u].inst

=============================================================================
